---- MODULE Spec2Model ----
(***************************************************************************)
(* A model of the file I/O engine of go-dbase: the table (DBF) handle, its *)
(* header, row area and cursor, the memo (FPT) file with its header and    *)
(* blocks, the two mutexes and the advisory byte-range locks.              *)
(*                                                                         *)
(* Every exported or internal operation of the I/O engine is one or more   *)
(* steps of a thread.  A write operation is split at the points where the  *)
(* code blocks (mutex, fcntl lock) or where a system call may fail; the    *)
(* outcome of a system call that the code tests (seek, write, fcntl,       *)
(* close) is chosen by the environment.  Read operations are one step.     *)
(* The position of a file descriptor between a seek and the read or write  *)
(* that follows it is not shared state of the model: the two are one step. *)
(***************************************************************************)
EXTENDS Integers, Sequences, FiniteSets, TLC

(***************************************************************************)
(* Bounds of the model                                                     *)
(***************************************************************************)
\* appends are started only while RowsCount < MaxRows
MaxRows == 2
\* memo writes are started only while NextFree < MaxNextFree
MaxNextFree == 2
\* at most MaxFaults system calls fail
MaxFaults == 1
\* size of one memo block of the modelled FPT file (its header field)
BlockSize0 == 10

Threads == {1, 2}
NoThread == 0

(***************************************************************************)
(* Integer widths                                                          *)
(***************************************************************************)
\* uint32 arithmetic wraps.  TLC evaluates integers in 32 bits, so the
\* modulus 2^32 of the code is scaled to 2^16: every count and offset
\* of the model is far below it, and a uint32 that underflows still wraps to
\* the largest value of the type.
Uint32Modulus == 2^16
Uint32(n) == n % Uint32Modulus

Min(a, b) == IF a < b THEN a ELSE b
Max(a, b) == IF a > b THEN a ELSE b

(***************************************************************************)
(* Byte codecs (encoding/binary)                                           *)
(***************************************************************************)
BigEndian32(n) ==
    << (n \div 16777216) % 256, (n \div 65536) % 256, (n \div 256) % 256, n % 256 >>
BigEndian16(n) == << (n \div 256) % 256, n % 256 >>
LittleEndian32(n) ==
    << n % 256, (n \div 256) % 256, (n \div 65536) % 256, (n \div 16777216) % 256 >>
FromBigEndian32(b) == b[1] * 16777216 + b[2] * 65536 + b[3] * 256 + b[4]
FromLittleEndian32(b) == b[1] + b[2] * 256 + b[3] * 65536 + b[4] * 16777216

Zeros(n) == [i \in 1..n |-> 0]

\* copy(dst, src): the first min(len) bytes of dst are replaced by src's
Copy(dst, src) ==
    [i \in 1..Len(dst) |-> IF i <= Len(src) THEN src[i] ELSE dst[i]]

(***************************************************************************)
(* Files as byte sequences: offset o is index o + 1                        *)
(***************************************************************************)
\* os.File.Write of bytes at offset off (after a seek to off)
WriteAt(file, off, bytes) ==
    LET newLen == Max(Len(file), off + Len(bytes))
    IN [i \in 1..newLen |->
            IF i > off /\ i <= off + Len(bytes) THEN bytes[i - off]
            ELSE IF i <= Len(file) THEN file[i] ELSE 0]

\* os.File.Read into a buffer of n bytes at offset off: the bytes read
ReadAt(file, off, n) ==
    IF off >= Len(file) THEN <<>>
    ELSE SubSeq(file, off + 1, Min(off + n, Len(file)))

(***************************************************************************)
(* Errors: the chain of site identifiers that newError builds              *)
(***************************************************************************)
nil == <<>>
newError(site, err) == <<site>> \o err
ErrEOF == <<"ErrEOF">>
ErrNoFPT == <<"ErrNoFPT">>
ErrIncomplete == <<"ErrIncomplete">>
ErrSearchMemo == <<"searching memo fields is not supported">>
\* an error of the operating system (seek, read, write, fcntl, close)
ErrSys == <<"errno">>

(***************************************************************************)
(* Table layout                                                            *)
(***************************************************************************)
\* deletion marker of a live row and of a deleted row
Active == 32
Deleted == 42

\* the columns of the table: with an FPT file a memo column and a character
\* column, without one the character column alone
MemoColumn == [DataType |-> "M", Position |-> 1, Length |-> 4]
ColumnsOf(hasMemo) ==
    IF hasMemo
    THEN << MemoColumn, [DataType |-> "C", Position |-> 5, Length |-> 2] >>
    ELSE << [DataType |-> "C", Position |-> 1, Length |-> 2] >>

RowLengthOf(cols) == cols[Len(cols)].Position + cols[Len(cols)].Length
FirstRowOf(cols) == 32 + 32 * Len(cols) + 1

VARIABLES
    WriteLock,      \* config.WriteLock
    dbaseFile,      \* dbf.dbaseFile: "nil", "open" or "closed"
    memoFile,       \* dbf.memoFile: "nil", "open" or "closed"
    header,         \* dbf.header: RowsCount, FirstRow, RowLength, Day
    memoHeader,     \* dbf.memoHeader: NextFree, BlockSize
    rowPointer,     \* dbf.table.rowPointer
    dbaseMutex,     \* dbf.dbaseMutex: the thread holding it, or NoThread
    memoMutex,      \* dbf.memoMutex: the thread holding it, or NoThread
    diskHeader,     \* the header as stored at offset 0 of the table file
    rowData,        \* the row area of the table file: offset -> row bytes
    dbfSize,        \* the size of the table file in bytes
    fpt,            \* the memo file, a sequence of bytes
    flocks,         \* advisory locks this process holds: [file, start, len]
    foreign,        \* files on which another process holds a conflicting lock
    faults,         \* the number of system calls that have failed so far
    pc,             \* per thread: the step it is at
    frame           \* per thread: arguments, locals and results of its call

vars == << WriteLock, dbaseFile, memoFile, header, memoHeader, rowPointer,
           dbaseMutex, memoMutex, diskHeader, rowData, dbfSize, fpt, flocks,
           foreign, faults, pc, frame >>

handleVars == << WriteLock, dbaseFile, memoFile >>
tableVars  == << header, diskHeader, rowData, dbfSize >>
memoVars   == << memoHeader, fpt >>
lockVars   == << flocks, foreign, faults >>
mutexVars  == << dbaseMutex, memoMutex >>

Columns == ColumnsOf(memoFile # "nil")

(***************************************************************************)
(* Inputs                                                                  *)
(***************************************************************************)
\* payloads of a memo: empty, one that fits a block, one longer than the
\* BlockSize - 8 bytes a block holds
ShortPayload == <<7>>
LongPayload == [i \in 1..(BlockSize0 - 7) |-> 8]

\* field values: a Go string, a Go []byte, or a value of another type
StringValue(s) == [kind |-> "string", data |-> s]
BytesValue(s)  == [kind |-> "bytes", data |-> s]
BadValue       == [kind |-> "other", data |-> <<>>]
NoValue        == [kind |-> "none", data |-> <<>>]

GoodMemoValues == { StringValue(<<>>), BytesValue(ShortPayload),
                    StringValue(LongPayload) }
CharValues == { StringValue(<<65>>), StringValue(<<66>>), BadValue }

\* the field values of the rows that are written: for a table with a memo
\* column << memo value, character value >>, else the character value
RowValues(hasMemo) ==
    IF hasMemo
    THEN { << StringValue(<<>>), StringValue(<<65>>) >>,
           << BytesValue(ShortPayload), StringValue(<<66>>) >>,
           << StringValue(LongPayload), StringValue(<<65>>) >>,
           << BadValue, StringValue(<<66>>) >>,
           << StringValue(<<>>), BadValue >> }
    ELSE { << NoValue, c >> : c \in CharValues }

\* two rows: one that encodes, one that does not
FewRowValues(hasMemo) ==
    IF hasMemo
    THEN { << BytesValue(ShortPayload), StringValue(<<66>>) >>,
           << StringValue(<<>>), BadValue >> }
    ELSE { << NoValue, StringValue(<<65>>) >>, << NoValue, BadValue >> }

\* the rows whose every field value has the type of its column
GoodRowValues(hasMemo) ==
    { v \in RowValues(hasMemo) : v[1].kind # "other" /\ v[2].kind # "other" }

\* the day the header of the file carries when it is opened, and the day
\* time.Now() shows while the handle is in use
OpenDay == 1
Today == OpenDay + 1

\* the frame of an idle thread
NoFrame ==
    [ op |-> "none",
      \* Row.writeRow
      Position |-> 0, mval |-> NoValue, cval |-> NoValue, fi |-> 0, r |-> <<>>,
      N |-> 0, position |-> 0, err |-> nil, rowDefer |-> FALSE,
      \* the row area and the cursor as writeRow found them
      data0 |-> <<>>,
      \* DBF.writeHeader
      whErr |-> nil, whDefer |-> FALSE,
      \* DBF.writeMemo
      caller |-> "none", raw |-> <<>>, text |-> FALSE, length |-> 0,
      blockPosition |-> 0, block |-> <<>>, wmErr |-> nil, wmRet |-> nil,
      address |-> <<>>, wmDefer |-> FALSE,
      \* DBF.writeMemoHeader
      wmhErr |-> nil, wmhDefer |-> FALSE,
      \* the deferred unlock closures
      ulockErr |-> nil,
      \* one-step operations: argument and results
      arg |-> 0, out |-> <<>>, flag |-> FALSE, before |-> 0 ]

\* the handle Open returns for a table without rows
InitHandle ==
    /\ WriteLock \in BOOLEAN
    /\ dbaseFile = "open"
    /\ memoFile \in {"open", "nil"}
    /\ header = [ RowsCount |-> 0,
                  FirstRow |-> FirstRowOf(ColumnsOf(memoFile # "nil")),
                  RowLength |-> RowLengthOf(ColumnsOf(memoFile # "nil")),
                  Day |-> OpenDay ]
    /\ diskHeader = header
    /\ rowData = << >>
    /\ dbfSize = header.FirstRow
    /\ memoHeader = [ NextFree |-> 1, BlockSize |-> BlockSize0 ]
    /\ fpt = IF memoFile = "nil" THEN <<>>
             ELSE Copy(Zeros(BlockSize0),
                       BigEndian32(1) \o <<0, 0>> \o BigEndian16(BlockSize0))
    /\ rowPointer = 0
    /\ dbaseMutex = NoThread
    /\ memoMutex = NoThread
    /\ flocks = {}
    /\ foreign = {}
    /\ pc = [t \in Threads |-> "idle"]
    /\ frame = [t \in Threads |-> NoFrame]

\* up to MaxFaults system calls will fail
Init == InitHandle /\ faults = 0

\* no system call will fail
InitNoFaults == InitHandle /\ faults = MaxFaults

(***************************************************************************)
(* Frames                                                                  *)
(***************************************************************************)
\* f with the fields of the record g replaced by g's
With(f, g) == [k \in DOMAIN f |-> IF k \in DOMAIN g THEN g[k] ELSE f[k]]

SetFrame(t, g) == frame' = [frame EXCEPT ![t] = With(frame[t], g)]
Goto(t, label) == pc' = [pc EXCEPT ![t] = label]

\* the handle lives from Open to Close: operations are called on a handle
\* that is open
InUse == dbaseFile = "open"

\* a one-step operation: called and returned in the same step
Finish(t, g) ==
    /\ pc[t] = "idle"
    /\ frame' = [frame EXCEPT ![t] = With(NoFrame, g)]
    /\ Goto(t, "done")

\* the caller takes the result: the thread is idle again
Return(t) ==
    /\ pc[t] = "done"
    /\ Goto(t, "idle")
    /\ frame' = [frame EXCEPT ![t] = NoFrame]
    /\ UNCHANGED << handleVars, tableVars, memoVars, lockVars, mutexVars,
                    rowPointer >>

(***************************************************************************)
(* DBF.GoTo                                                                *)
(***************************************************************************)
\* a GoTo that does not clamp
GoToRowPointerUnclamped(rowNumber, RowsCount) == rowNumber

GoToRowPointer(rowNumber, RowsCount) ==
    IF rowNumber > RowsCount THEN RowsCount ELSE rowNumber

GoToError(rowNumber, RowsCount) ==
    IF rowNumber > RowsCount
    THEN newError("dbase-io-goto-1", ErrEOF)
    ELSE nil

GoToArgs == 0..(MaxRows + 1)

GoTo(t) ==
    \E rowNumber \in GoToArgs :
        /\ InUse
        /\ Finish(t, [ op |-> "GoTo", arg |-> rowNumber, before |-> rowPointer,
                       N |-> header.RowsCount,
                       err |-> GoToError(rowNumber, header.RowsCount) ])
        /\ rowPointer' = GoToRowPointer(rowNumber, header.RowsCount)
        /\ UNCHANGED << handleVars, tableVars, memoVars, lockVars, mutexVars >>

(***************************************************************************)
(* DBF.Skip                                                                *)
(***************************************************************************)
\* the three assignments of Skip in order: the last one is unconditional
SkipRowPointer(ptr, offset, RowsCount) ==
    LET newval == ptr + offset
        p1 == IF newval >= RowsCount THEN RowsCount ELSE ptr
        p2 == IF newval < 0 THEN 0 ELSE p1
        p3 == Uint32(newval)
    IN p3

SkipOffsets == (-2)..2

Skip(t) ==
    \E offset \in SkipOffsets :
        /\ InUse
        /\ rowPointer <= header.RowsCount
        /\ Finish(t, [ op |-> "Skip", arg |-> offset, before |-> rowPointer,
                       N |-> header.RowsCount ])
        /\ rowPointer' = SkipRowPointer(rowPointer, offset, header.RowsCount)
        /\ UNCHANGED << handleVars, tableVars, memoVars, lockVars, mutexVars >>

(***************************************************************************)
(* DBF.Close                                                               *)
(***************************************************************************)
\* os.File.Close: the descriptor is released whether or not close(2) reports
\* an error; closing a closed file is an error
Closed(file) == IF file = "nil" THEN "nil" ELSE "closed"

\* the files Close calls Close on, given whether the table file's call fails
CloseAttempts(dbase, memo, dbaseFails) ==
    (IF dbase # "nil" THEN {"dbf"} ELSE {}) \cup
    (IF memo # "nil" /\ ~(dbase # "nil" /\ dbaseFails) THEN {"fpt"} ELSE {})

CloseError(dbase, memo, dbaseFails, memoFails) ==
    IF dbase # "nil" /\ dbaseFails
    THEN newError("dbase-io-close-1", ErrSys)
    ELSE IF memo # "nil" /\ memoFails
         THEN newError("dbase-io-close-2", ErrSys)
         ELSE nil

Close(t) ==
    \E dbaseFails \in BOOLEAN, memoFails \in BOOLEAN :
        LET attempts == CloseAttempts(dbaseFile, memoFile, dbaseFails)
            failed == Cardinality({f \in attempts :
                          \/ f = "dbf" /\ dbaseFails
                          \/ f = "fpt" /\ memoFails /\ memoFile = "open"})
        IN
        /\ InUse
        /\ memoFile = "closed" => memoFails
        /\ "fpt" \notin attempts => ~memoFails
        /\ faults + failed <= MaxFaults
        /\ faults' = faults + failed
        /\ Finish(t, [ op |-> "Close",
                       out |-> << dbaseFile, memoFile >>,
                       flag |-> dbaseFails,
                       err |-> CloseError(dbaseFile, memoFile, dbaseFails,
                                          memoFails) ])
        /\ dbaseFile' = IF "dbf" \in attempts THEN Closed(dbaseFile) ELSE dbaseFile
        /\ memoFile' = IF "fpt" \in attempts THEN Closed(memoFile) ELSE memoFile
        /\ flocks' = {l \in flocks : l.file \notin attempts}
        /\ UNCHANGED << WriteLock, tableVars, memoVars, foreign, mutexVars,
                        rowPointer >>

(***************************************************************************)
(* Open: prepareDBF and prepareMemo on the files as they are on disk       *)
(***************************************************************************)
\* readMemoHeader: NextFree and BlockSize decoded big-endian
readMemoHeader(bytes) ==
    [ NextFree |-> FromBigEndian32(SubSeq(bytes, 1, 4)),
      BlockSize |-> bytes[7] * 256 + bytes[8] ]

\* a closed table is opened again: a new handle, its header and memo header
\* parsed from the files, its cursor at 0
Open(t) ==
    /\ dbaseFile = "closed"
    /\ Finish(t, [ op |-> "Open", N |-> header.RowsCount ])
    /\ dbaseFile' = "open"
    /\ memoFile' = IF memoFile = "nil" THEN "nil" ELSE "open"
    /\ header' = diskHeader
    /\ memoHeader' = IF memoFile = "nil" THEN memoHeader ELSE readMemoHeader(fpt)
    /\ rowPointer' = 0
    /\ dbaseMutex' = NoThread
    /\ memoMutex' = NoThread
    /\ UNCHANGED << WriteLock, diskHeader, rowData, dbfSize, fpt, lockVars >>

(***************************************************************************)
(* DBF.readRow                                                             *)
(***************************************************************************)
RowOffset(hdr, n) == hdr.FirstRow + n * hdr.RowLength

\* the len bytes the file holds from offset off on, were it long enough
SlotAt(data, len, off) == IF off \in DOMAIN data THEN data[off] ELSE Zeros(len)

\* a Read that returns len bytes wherever the file ends
RowBytesAtWhole(data, size, len, off) == SlotAt(data, len, off)

\* the bytes a Read of len bytes at offset off returns: none at or past the
\* end of the file, fewer than len where the file ends inside them
RowBytesAt(data, size, len, off) ==
    IF off >= size THEN <<>>
    ELSE SubSeq(SlotAt(data, len, off), 1, Min(len, size - off))

readRow(hdr, file, data, size, rowPosition) ==
    IF rowPosition >= hdr.RowsCount
    THEN [ out |-> <<>>, err |-> newError("dbase-io-readrow-1", ErrEOF) ]
    ELSE IF file # "open"
    THEN [ out |-> Zeros(hdr.RowLength),
           err |-> newError("dbase-io-readrow-2", ErrSys) ]
    ELSE LET off == RowOffset(hdr, rowPosition)
             read == RowBytesAt(data, size, hdr.RowLength, off)
         IN IF Len(read) = 0
            THEN [ out |-> Zeros(hdr.RowLength),
                   err |-> newError("dbase-io-readrow-3", <<"io.EOF">>) ]
            ELSE IF Len(read) # hdr.RowLength
            THEN [ out |-> Copy(Zeros(hdr.RowLength), read),
                   err |-> newError("dbase-io-readrow-4", ErrIncomplete) ]
            ELSE [ out |-> read, err |-> nil ]

ReadRow(t) ==
    \E rowPosition \in 0..MaxRows :
        LET res == readRow(header, dbaseFile, rowData, dbfSize, rowPosition) IN
        /\ InUse
        /\ Finish(t, [ op |-> "readRow", arg |-> rowPosition,
                       N |-> header.RowsCount,
                       out |-> res.out, err |-> res.err ])
        /\ UNCHANGED << handleVars, tableVars, memoVars, lockVars, mutexVars,
                        rowPointer >>

(***************************************************************************)
(* DBF.Deleted                                                             *)
(***************************************************************************)
\* a Deleted() that takes the marker of a live row for the deletion marker
DeletedMarkerActive == Active

\* the byte Deleted() compares the marker of the row with
DeletedMarker == Deleted

\* Deleted() with the cursor at ptr: read is the number of bytes it read,
\* at the offset at
DeletedResult(hdr, file, data, size, ptr) ==
    IF ptr >= hdr.RowsCount
    THEN [ out |-> FALSE, read |-> 0, at |-> 0,
           err |-> newError("dbase-io-deleted-1", ErrEOF) ]
    ELSE IF file # "open"
    THEN [ out |-> FALSE, read |-> 0, at |-> 0,
           err |-> newError("dbase-io-deleted-2", ErrSys) ]
    ELSE LET off == RowOffset(hdr, ptr)
             buf == RowBytesAt(data, size, 1, off)
         IN IF Len(buf) = 0
            THEN [ out |-> FALSE, read |-> 0, at |-> off,
                   err |-> newError("dbase-io-deleted-3", <<"io.EOF">>) ]
            ELSE [ out |-> buf[1] = DeletedMarker, read |-> 1, at |-> off,
                   err |-> nil ]

DBF_Deleted(t) ==
    LET res == DeletedResult(header, dbaseFile, rowData, dbfSize, rowPointer) IN
    /\ InUse
    /\ Finish(t, [ op |-> "Deleted", before |-> rowPointer,
                   N |-> header.RowsCount, flag |-> res.out,
                   length |-> res.read, position |-> res.at,
                   err |-> res.err ])
    /\ UNCHANGED << handleVars, tableVars, memoVars, lockVars, mutexVars,
                    rowPointer >>

(***************************************************************************)
(* DBF.readMemo                                                            *)
(***************************************************************************)
readMemo(file, mh, bytes, blockdata) ==
    IF file = "nil"
    THEN [ out |-> <<>>, flag |-> FALSE,
           err |-> newError("dbase-io-readmemo-1", ErrNoFPT) ]
    ELSE IF file # "open"
    THEN [ out |-> <<>>, flag |-> FALSE,
           err |-> newError("dbase-io-readmemo-2", ErrSys) ]
    ELSE
    LET block == FromLittleEndian32(blockdata)
        off == mh.BlockSize * block
        hread == ReadAt(bytes, off, 8)
        hbuf == Copy(Zeros(8), hread)
        sign == FromBigEndian32(SubSeq(hbuf, 1, 4))
        leng == FromBigEndian32(SubSeq(hbuf, 5, 8))
        read == ReadAt(bytes, off + Len(hread), leng)
        buf == Copy(Zeros(leng), read)
    IN IF Len(hread) = 0
       THEN [ out |-> <<>>, flag |-> FALSE,
              err |-> newError("dbase-io-readmemo-3", <<"io.EOF">>) ]
       ELSE IF leng = 0
       THEN [ out |-> <<>>, flag |-> sign = 1, err |-> nil ]
       ELSE IF Len(read) = 0
       THEN [ out |-> buf, flag |-> FALSE,
              err |-> newError("dbase-io-readmemo-4", <<"io.EOF">>) ]
       ELSE IF Len(read) # leng
       THEN [ out |-> buf, flag |-> sign = 1,
              err |-> newError("dbase-io-readmemo-5", ErrIncomplete) ]
       ELSE [ out |-> buf, flag |-> sign = 1, err |-> nil ]

ReadMemo(t) ==
    \E block \in 0..MaxNextFree :
        LET res == readMemo(memoFile, memoHeader, fpt, LittleEndian32(block)) IN
        /\ InUse
        /\ Finish(t, [ op |-> "readMemo", arg |-> block,
                       out |-> res.out, flag |-> res.flag, err |-> res.err ])
        /\ UNCHANGED << handleVars, tableVars, memoVars, lockVars, mutexVars,
                        rowPointer >>

(***************************************************************************)
(* Advisory byte-range locks (fcntl F_SETLK / unlock)                      *)
(***************************************************************************)
Flock(file, start, len) == [file |-> file, start |-> start, len |-> len]

FileState(file) == IF file = "dbf" THEN dbaseFile ELSE memoFile

\* the outcomes of F_SETLK on a file: acquired, or an error other than
\* EAGAIN; while another process holds a conflicting lock the call returns
\* EAGAIN and the loop sleeps and tries again
MayFail == IF faults < MaxFaults THEN {"error"} ELSE {}

\* an acquisition without the retry loop: EAGAIN is an error like any other
LockOutcomesNoRetry(file) ==
    IF FileState(file) = "open" /\ file \notin foreign
    THEN {"ok"} \cup MayFail ELSE {"error"}

LockOutcomes(file) ==
    (IF FileState(file) = "open" /\ file \notin foreign THEN {"ok"} ELSE {})
    \cup (IF FileState(file) = "open" THEN MayFail ELSE {"error"})

\* the outcomes of the unlock call on the descriptor of a file
UnlockOutcomes(file) ==
    IF FileState(file) = "open" THEN {"ok"} \cup MayFail ELSE {"error"}

\* the outcomes of a seek followed by a write on a file
WriteOutcomes(file) ==
    IF FileState(file) = "open"
    THEN {"ok"} \cup (IF faults < MaxFaults THEN {"seek", "write"} ELSE {})
    ELSE {"seek"}

\* a system call that failed on an open file counts as a fault
Fault(file, outcome) ==
    faults' = IF outcome # "ok" /\ FileState(file) = "open"
              THEN faults + 1 ELSE faults

\* another process takes or releases a lock that conflicts with ours
ForeignLock ==
    \E file \in {"dbf", "fpt"} :
        /\ file \notin foreign
        /\ \A l \in flocks : l.file # file
        /\ FileState(file) = "open"
        /\ foreign' = foreign \cup {file}
        /\ UNCHANGED << handleVars, tableVars, memoVars, mutexVars, rowPointer,
                        flocks, faults, pc, frame >>

ForeignUnlock ==
    \E file \in foreign :
        /\ foreign' = foreign \ {file}
        /\ UNCHANGED << handleVars, tableVars, memoVars, mutexVars, rowPointer,
                        flocks, faults, pc, frame >>

(***************************************************************************)
(* Row.ToBytes and the value codec it calls                                *)
(***************************************************************************)
Spaces(n) == [i \in 1..n |-> 32]

\* getCRepresentation: the text right-padded with spaces to the column length
getCRepresentation(value, column) ==
    IF value.kind # "string"
    THEN [ raw |-> <<>>,
           err |-> <<"dbase-interpreter-getcrepresentation-1">> ]
    ELSE [ raw |-> Copy(Spaces(column.Length), value.data), err |-> nil ]

\* getMRepresentation: the payload and text flag handed to writeMemo
getMRepresentation(value) ==
    IF value.kind = "string"
    THEN [ memo |-> value.data, txt |-> TRUE, err |-> nil ]
    ELSE IF value.kind = "bytes"
    THEN [ memo |-> value.data, txt |-> FALSE, err |-> nil ]
    ELSE [ memo |-> <<>>, txt |-> FALSE,
           err |-> <<"dbase-interpreter-getmrepresentation-1">> ]

(***************************************************************************)
(* The value codec: valueToByteRepresentation and dataToValue              *)
(***************************************************************************)
\* field values of the numeric and logical Go types.  A float64 is the pair
\* << n, r >> of its integral part n and of the numerator r of its fraction
\* in ten-thousandths, both with the sign of the number: it stands for
\* n + r / 10000.
IntValue(n)      == [kind |-> "int32", data |-> <<n>>]
FloatValue(n, r) == [kind |-> "float64", data |-> <<n, r>>]
BoolValue(b)     == [kind |-> "bool", data |-> IF b THEN <<1>> ELSE <<0>>]

MaxInt32 == 2147483647
MinInt32 == -MaxInt32 - 1

\* f > 0, f <= m and int32(f) of a float64 f
FloatPositive(d) == d[1] > 0 \/ (d[1] = 0 /\ d[2] > 0)
FloatAtMost(d, m) == d[1] < m \/ (d[1] = m /\ d[2] <= 0)
FloatTrunc(d) == d[1]

\* a bounds check that lets the negative numbers through
InInt32BoundsSigned(d) == FloatAtMost(d, MaxInt32)

\* the check for lower and upper bounds of getIRepresentation
InInt32Bounds(d) == FloatPositive(d) /\ FloatAtMost(d, MaxInt32)

\* toBinary of an int64 whose value lies within the int32 range: the int32
\* bytes and four bytes of sign extension
LittleEndian64(i) ==
    LittleEndian32(i) \o (IF i < 0 THEN <<255, 255, 255, 255>>
                                   ELSE <<0, 0, 0, 0>>)

getIRepresentation(value, column) ==
    IF value.kind = "int32"
    THEN [ raw |-> Copy(Zeros(column.Length), LittleEndian32(value.data[1])),
           err |-> nil ]
    ELSE IF value.kind = "float64"
    THEN LET i == IF InInt32Bounds(value.data) THEN FloatTrunc(value.data)
                  ELSE 0
         IN [ raw |-> Copy(Zeros(column.Length), LittleEndian32(i)),
              err |-> nil ]
    ELSE [ raw |-> <<>>, err |-> <<"dbase-interpreter-getirepresentation-1">> ]

\* int64(f * 10000)
CurrencyUnits(d) == d[1] * 10000 + d[2]

getYRepresentation(value, column) ==
    IF value.kind # "float64"
    THEN [ raw |-> <<>>, err |-> <<"dbase-interpreter-getyrepresentation-1">> ]
    ELSE [ raw |-> Copy(Zeros(column.Length),
                        LittleEndian64(CurrencyUnits(value.data))),
           err |-> nil ]

getLRepresentation(value) ==
    IF value.kind # "bool"
    THEN [ raw |-> <<>>, err |-> <<"dbase-interpreter-getlrepresentation-1">> ]
    ELSE [ raw |-> IF value.data = <<1>> THEN <<84>> ELSE <<70>>, err |-> nil ]

\* the error e of a codec function wrapped under the code of the caller
WrapCodec(code, res) ==
    IF res.err = nil THEN res
    ELSE [ raw |-> <<>>, err |-> newError(code, res.err) ]

\* valueToByteRepresentation for the column types C, I, Y, L and V; a memo
\* column is written through writeMemo (see WR_Field)
valueToByteRepresentation(value, column) ==
    CASE column.DataType = "C" ->
           WrapCodec("dbase-interpreter-valuetobyterepresentation-2",
                     getCRepresentation(value, column))
      [] column.DataType = "I" ->
           WrapCodec("dbase-interpreter-valuetobyterepresentation-3",
                     getIRepresentation(value, column))
      [] column.DataType = "Y" ->
           WrapCodec("dbase-interpreter-valuetobyterepresentation-4",
                     getYRepresentation(value, column))
      [] column.DataType = "L" ->
           WrapCodec("dbase-interpreter-valuetobyterepresentation-9",
                     getLRepresentation(value))
      [] column.DataType = "V" ->
           IF value.kind # "bytes"
           THEN [ raw |-> <<>>,
                  err |-> <<"dbase-interpreter-valuetobyterepresentation-10">> ]
           ELSE [ raw |-> value.data, err |-> nil ]
      [] OTHER ->
           [ raw |-> <<>>,
             err |-> <<"dbase-interpreter-valuetobyterepresentation-12">> ]

\* int32(binary.LittleEndian.Uint32(raw)): the top bit is the sign
Int32FromLittleEndian(b) ==
    b[1] + b[2] * 256 + b[3] * 65536
         + (IF b[4] >= 128 THEN b[4] - 256 ELSE b[4]) * 16777216

\* binary.LittleEndian.Uint64(raw) as four 16-bit limbs, the lowest first
Uint64Limbs(b) == [j \in 1..4 |-> b[2 * j - 1] + b[2 * j] * 256]

\* float64(u) / 10000 of the uint64 u with these limbs: below 2^31 the
\* number, from 2^31 on the limbs of its numerator
Float64Over10000(limbs) ==
    IF limbs[3] = 0 /\ limbs[4] = 0 /\ limbs[2] < 32768
    THEN LET u == limbs[1] + limbs[2] * 65536
         IN FloatValue(u \div 10000, u % 10000)
    ELSE [kind |-> "float64", data |-> limbs]

\* dataToValue for the column types C, I, Y, L and V
dataToValue(raw, column) ==
    IF Len(raw) # column.Length
    THEN [ val |-> NoValue, err |-> <<"dbase-interpreter-datatovalue-1">> ]
    ELSE CASE column.DataType = "C" -> [ val |-> StringValue(raw), err |-> nil ]
           [] column.DataType = "I" ->
                IF Len(raw) < 4
                THEN [ val |-> NoValue, err |-> <<"panic: index out of range">> ]
                ELSE [ val |-> IntValue(Int32FromLittleEndian(raw)),
                       err |-> nil ]
           [] column.DataType = "L" ->
                [ val |-> BoolValue(raw = <<84>>), err |-> nil ]
           [] column.DataType = "V" -> [ val |-> BytesValue(raw), err |-> nil ]
           [] column.DataType = "Y" ->
                IF Len(raw) < 8
                THEN [ val |-> NoValue, err |-> <<"panic: index out of range">> ]
                ELSE [ val |-> Float64Over10000(Uint64Limbs(raw)),
                       err |-> nil ]
           [] OTHER ->
                [ val |-> NoValue, err |-> <<"dbase-interpreter-datatovalue-9">> ]

\* the columns the codec is applied to, and for each type the field values
\* and the raw field contents it is applied to
CodecColumns ==
    << [DataType |-> "C", Position |-> 1, Length |-> 2],
       [DataType |-> "I", Position |-> 3, Length |-> 4],
       [DataType |-> "Y", Position |-> 7, Length |-> 8],
       [DataType |-> "L", Position |-> 15, Length |-> 1],
       [DataType |-> "V", Position |-> 16, Length |-> 2] >>

Int32Values == { IntValue(n) : n \in {MinInt32, -65536, -1, 0, 1, 258, MaxInt32} }
WholeFloats == { FloatValue(n, 0) : n \in {MinInt32, -3, 0, 7, MaxInt32} }
FractionFloats ==
    { FloatValue(0, 5000), FloatValue(0, -1), FloatValue(7, 2500),
      FloatValue(-3, -5000), FloatValue(MaxInt32, 5000) }
CurrencyFloats ==
    { FloatValue(0, 0), FloatValue(0, 1), FloatValue(0, -1),
      FloatValue(12, 3400), FloatValue(-12, -3400), FloatValue(200000, 0),
      FloatValue(-200000, 0) }
OtherValues ==
    { StringValue(<<65>>), StringValue(<<65, 66, 67>>), BytesValue(<<1>>),
      BytesValue(<<1, 2>>), BytesValue(<<1, 2, 3>>), BoolValue(TRUE),
      BoolValue(FALSE), BadValue }

CodecValues(column) ==
    IF column.DataType = "Y" THEN CurrencyFloats \cup Int32Values \cup OtherValues
    ELSE Int32Values \cup WholeFloats \cup FractionFloats \cup OtherValues

CodecRaws ==
    { <<>>, <<84>>, <<70>>, <<65, 32>>, <<1, 2, 3>>,
      <<1, 0, 0, 0>>, <<255, 255, 255, 255>>, <<0, 0, 0, 128>>,
      <<1, 0, 0, 0, 0, 0, 0, 0>>, <<255, 255, 255, 255, 255, 255, 255, 255>>,
      <<0, 0, 0, 0, 0, 0, 0, 128>>, <<0, 0, 0, 0, 1, 0, 0, 0>> }

\* valueToByteRepresentation is called on a field of one of the columns
ValueToBytes(t) ==
    \E c \in 1..Len(CodecColumns) :
      \E value \in CodecValues(CodecColumns[c]) :
        LET res == valueToByteRepresentation(value, CodecColumns[c]) IN
        /\ InUse
        /\ Finish(t, [ op |-> "valueToByteRepresentation", arg |-> c,
                       cval |-> value, raw |-> res.raw, err |-> res.err ])
        /\ UNCHANGED << handleVars, tableVars, memoVars, lockVars, mutexVars,
                        rowPointer >>

\* dataToValue is called on the raw contents of a field
DataToValue(t) ==
    \E c \in 1..Len(CodecColumns), raw \in CodecRaws :
        LET res == dataToValue(raw, CodecColumns[c]) IN
        /\ InUse
        /\ Finish(t, [ op |-> "dataToValue", arg |-> c, raw |-> raw,
                       cval |-> res.val, err |-> res.err ])
        /\ UNCHANGED << handleVars, tableVars, memoVars, lockVars, mutexVars,
                        rowPointer >>

(***************************************************************************)
(* DBF.Search                                                              *)
(***************************************************************************)
\* bytes.Contains(buf, val)
Contains(buf, val) ==
    \E i \in 0..(Len(buf) - Len(val)) : SubSeq(buf, i + 1, i + Len(val)) = val

\* a Search that reads the field at the start of the row, the deletion marker
\* included
FieldBytesAtRowStart(hdr, data, size, column, i) ==
    LET slot == RowBytesAt(data, size, hdr.RowLength, RowOffset(hdr, i)) IN
    SubSeq(slot, 1, Min(column.Length, Len(slot)))

\* the bytes Search reads for a column of row i: Seek to the row plus
\* column.Position, Read of column.Length bytes
FieldBytesAt(hdr, data, size, column, i) ==
    LET slot == RowBytesAt(data, size, hdr.RowLength, RowOffset(hdr, i)) IN
    SubSeq(slot, column.Position + 1,
           Min(column.Position + column.Length, Len(slot)))

\* dbf.Row() at row i succeeds: the row is read whole and its memo column,
\* if any, is read from the FPT file
RowDecodes(hdr, file, data, size, cols, mfile, mh, bytes, i) ==
    LET row == readRow(hdr, file, data, size, i) IN
    /\ row.err = nil
    /\ \A c \in 1..Len(cols) :
          cols[c].DataType = "M" =>
              readMemo(mfile, mh, bytes,
                       SubSeq(row.out, cols[c].Position + 1,
                              cols[c].Position + cols[c].Length)).err = nil

\* the loop of Search from row i on: ptr is the cursor, rows the rows found
RECURSIVE SearchFrom(_, _, _, _, _)
SearchFrom(i, ptr, rows, column, val) ==
    IF i >= header.RowsCount
    THEN [ rows |-> rows, rowPointer |-> ptr, err |-> nil ]
    ELSE LET buf == FieldBytesAt(header, rowData, dbfSize, column, i) IN
         IF Len(buf) # column.Length \/ ~Contains(buf, val)
         THEN SearchFrom(i + 1, ptr, rows, column, val)
         ELSE IF GoToError(i, header.RowsCount) # nil
         THEN SearchFrom(i + 1, GoToRowPointer(i, header.RowsCount), rows,
                         column, val)
         ELSE IF RowDecodes(header, dbaseFile, rowData, dbfSize, Columns,
                            memoFile, memoHeader, fpt, i)
         THEN SearchFrom(i + 1, GoToRowPointer(i, header.RowsCount),
                         Append(rows, i), column, val)
         ELSE SearchFrom(i + 1, GoToRowPointer(i, header.RowsCount), rows,
                         column, val)

\* a Search that scans a memo column like any other column
SearchResultAnyColumn(column, value) ==
    LET val == getCRepresentation(value, column) IN
    IF val.err # nil
    THEN [ rows |-> <<>>, rowPointer |-> rowPointer,
           err |-> newError("dbase-io-search-1", val.err) ]
    ELSE SearchFrom(0, rowPointer, <<>>, column, val.raw)

SearchResult(column, value) ==
    IF column.DataType = "M"
    THEN [ rows |-> <<>>, rowPointer |-> rowPointer,
           err |-> newError("dbase-io-search-1", ErrSearchMemo) ]
    ELSE LET val == getCRepresentation(value, column) IN
         IF val.err # nil
         THEN [ rows |-> <<>>, rowPointer |-> rowPointer,
                err |-> newError("dbase-io-search-1", val.err) ]
         ELSE SearchFrom(0, rowPointer, <<>>, column, val.raw)

Search(t) ==
    \E c \in 1..Len(Columns), value \in CharValues :
        LET res == SearchResult(Columns[c], value) IN
        /\ InUse
        /\ Finish(t, [ op |-> "Search", arg |-> c, cval |-> value,
                       before |-> rowPointer, N |-> header.RowsCount,
                       out |-> res.rows, err |-> res.err ])
        /\ rowPointer' = res.rowPointer
        /\ UNCHANGED << handleVars, tableVars, memoVars, lockVars, mutexVars >>

(***************************************************************************)
(* Row.writeRow                                                            *)
(***************************************************************************)
\* a writeRow that writes every row one slot further
writeRowPositionNext(hdr, Position) ==
    hdr.FirstRow + (Position + 1) * hdr.RowLength

\* the file offset writeRow writes the row at
writeRowPosition(hdr, Position) ==
    IF Position >= hdr.RowsCount
    THEN hdr.FirstRow + Uint32(Position - 1) * hdr.RowLength
    ELSE hdr.FirstRow + Position * hdr.RowLength

\* the RowsCount writeRow leaves in the header
writeRowRowsCount(hdr, Position) ==
    IF Position >= hdr.RowsCount THEN Uint32(hdr.RowsCount + 1)
    ELSE hdr.RowsCount

\* writeRow is called on a row with a position among Positions and field
\* values among Values
CallWriteRowOf(t, Positions, Values) ==
    \E Position \in Positions, v \in Values :
        /\ pc[t] = "idle"
        /\ InUse
        /\ Position <= header.RowsCount + 1
        /\ frame' = [frame EXCEPT ![t] =
              With(NoFrame, [ op |-> "writeRow", Position |-> Position,
                              mval |-> v[1], cval |-> v[2] ])]
        /\ Goto(t, "wr_lock")
        /\ UNCHANGED << handleVars, tableVars, memoVars, lockVars, mutexVars,
                        rowPointer >>

\* a row read from the table (Position < RowsCount), a row at RowsCount, or
\* a new row (RowsCount + 1), with any field values
CallWriteRow(t) ==
    CallWriteRowOf(t, 0..(MaxRows + 1), RowValues(memoFile # "nil"))

\* a Lock() that returns although another thread holds the mutex
MutexFreeAlways(mutex) == TRUE

\* Lock() of a sync.Mutex returns once no thread holds the mutex
MutexFree(mutex) == mutex = NoThread

\* row.dbf.dbaseMutex.Lock()
WR_Lock(t) ==
    /\ pc[t] = "wr_lock"
    /\ MutexFree(dbaseMutex)
    /\ frame[t].Position >= header.RowsCount => header.RowsCount < MaxRows
    /\ dbaseMutex' = t
    /\ SetFrame(t, [ N |-> header.RowsCount, r |-> <<Active>>, fi |-> 1,
                     data0 |-> rowData, before |-> rowPointer ])
    /\ Goto(t, "wr_tobytes")
    /\ UNCHANGED << handleVars, tableVars, memoVars, lockVars, memoMutex,
                    rowPointer >>

\* row.ToBytes(): the next field is encoded into the row buffer
WR_Field(t) ==
    /\ pc[t] = "wr_tobytes"
    /\ frame[t].fi <= Len(Columns)
    /\ LET column == Columns[frame[t].fi]
           c == getCRepresentation(frame[t].cval, column)
           m == getMRepresentation(frame[t].mval)
       IN IF column.DataType = "M"
          THEN IF m.err # nil
               THEN /\ SetFrame(t, [ err |-> newError("dbase-io-writerow-1",
                         <<"dbase-interpreter-valuetobyterepresentation-1">>
                         \o m.err) ])
                    /\ Goto(t, "wr_ret")
               ELSE /\ SetFrame(t, [ caller |-> "writeRow", raw |-> m.memo,
                                     text |-> m.txt, length |-> Len(m.memo) ])
                    /\ Goto(t, "wm_lock")
          ELSE IF c.err # nil
               THEN /\ SetFrame(t, [ err |-> newError("dbase-io-writerow-1",
                         <<"dbase-interpreter-valuetobyterepresentation-2">>
                         \o c.err) ])
                    /\ Goto(t, "wr_ret")
               ELSE /\ SetFrame(t, [ r |-> frame[t].r \o c.raw,
                                     fi |-> frame[t].fi + 1 ])
                    /\ Goto(t, "wr_tobytes")
    /\ UNCHANGED << handleVars, tableVars, memoVars, lockVars, mutexVars,
                    rowPointer >>

\* the position is computed and, on append, RowsCount is incremented; then
\* writeHeader is called
WR_Position(t) ==
    /\ pc[t] = "wr_tobytes"
    /\ frame[t].fi > Len(Columns)
    /\ SetFrame(t, [ position |-> writeRowPosition(header, frame[t].Position) ])
    /\ header' = [header EXCEPT
                    !.RowsCount = writeRowRowsCount(header, frame[t].Position)]
    /\ Goto(t, IF WriteLock THEN "wh_flock" ELSE "wh_write")
    /\ UNCHANGED << handleVars, diskHeader, rowData, dbfSize, memoVars, lockVars,
                    mutexVars, rowPointer >>

\* a writeRow that goes on to the row whatever writeHeader returned
AfterWriteHeaderIgnored(whErr) ==
    [ pc |-> IF WriteLock THEN "wr_flock" ELSE "wr_write",
      err |-> IF whErr # nil THEN newError("dbase-io-writerow-2", whErr)
              ELSE nil ]

\* what writeRow does with the error writeHeader returned
AfterWriteHeader(whErr) ==
    IF whErr # nil
    THEN [ pc |-> "wr_ret", err |-> newError("dbase-io-writerow-2", whErr) ]
    ELSE [ pc |-> IF WriteLock THEN "wr_flock" ELSE "wr_write", err |-> nil ]

(***************************************************************************)
(* DBF.writeHeader                                                         *)
(***************************************************************************)
\* the lock on [0, FirstRow) of the table file
WH_Flock(t) ==
    \E outcome \in LockOutcomes("dbf") :
        /\ pc[t] = "wh_flock"
        /\ IF outcome = "ok"
           THEN /\ flocks' = flocks \cup {Flock("dbf", 0, header.FirstRow)}
                /\ SetFrame(t, [ whDefer |-> TRUE ])
                /\ Goto(t, "wh_write")
           ELSE LET e == newError("dbase-io-writeheader-1", ErrSys) IN
                /\ flocks' = flocks
                /\ SetFrame(t, [ whErr |-> e, err |-> AfterWriteHeader(e).err ])
                /\ Goto(t, AfterWriteHeader(e).pc)
        /\ Fault("dbf", outcome)
        /\ UNCHANGED << handleVars, tableVars, memoVars, mutexVars, rowPointer,
                        foreign >>

\* the error of the body of writeHeader for an outcome of its seek and write
writeHeaderError(outcome) ==
    IF outcome = "seek" THEN newError("dbase-io-writeheader-3", ErrSys)
    ELSE IF outcome = "write" THEN newError("dbase-io-writeheader-5", ErrSys)
    ELSE nil

\* seek to 0, stamp the date, serialise and write the header
WH_Write(t) ==
    \E outcome \in WriteOutcomes("dbf") :
        LET e == writeHeaderError(outcome)
            stamped == [header EXCEPT !.Day = Today]
        IN
        /\ pc[t] = "wh_write"
        /\ header' = IF outcome = "seek" THEN header ELSE stamped
        /\ diskHeader' = IF outcome = "ok" THEN stamped ELSE diskHeader
        /\ IF frame[t].whDefer
           THEN /\ SetFrame(t, [ whErr |-> e ])
                /\ Goto(t, "wh_defer")
           ELSE /\ SetFrame(t, [ whErr |-> e, err |-> AfterWriteHeader(e).err ])
                /\ Goto(t, AfterWriteHeader(e).pc)
        /\ Fault("dbf", outcome)
        /\ UNCHANGED << handleVars, rowData, dbfSize, memoVars, flocks, foreign,
                        mutexVars, rowPointer >>

\* the error a function with a named result returns once its deferred unlock
\* has run: err is the result of the body, ulockErr the result of the unlock
DeferredError(site, err, ulockErr) ==
    IF ulockErr # nil THEN newError(site, ulockErr) ELSE err

UlockResult(outcome) == IF outcome = "ok" THEN nil ELSE ErrSys

\* the deferred unlock of writeHeader, on the table file
WH_Defer(t) ==
    \E outcome \in UnlockOutcomes("dbf") :
        LET u == UlockResult(outcome)
            e == DeferredError("dbase-io-writeheader-2", frame[t].whErr, u)
        IN
        /\ pc[t] = "wh_defer"
        /\ flocks' = IF outcome = "ok"
                     THEN flocks \ {Flock("dbf", 0, header.FirstRow)}
                     ELSE flocks
        /\ SetFrame(t, [ ulockErr |-> u, whErr |-> e,
                         err |-> AfterWriteHeader(e).err ])
        /\ Goto(t, AfterWriteHeader(e).pc)
        /\ Fault("dbf", outcome)
        /\ UNCHANGED << handleVars, tableVars, memoVars, mutexVars, rowPointer,
                        foreign >>

(***************************************************************************)
(* Row.writeRow, after writeHeader                                         *)
(***************************************************************************)
\* the lock on [position, position + RowLength) of the table file
WR_Flock(t) ==
    \E outcome \in LockOutcomes("dbf") :
        /\ pc[t] = "wr_flock"
        /\ IF outcome = "ok"
           THEN /\ flocks' = flocks \cup
                        {Flock("dbf", frame[t].position, header.RowLength)}
                /\ SetFrame(t, [ rowDefer |-> TRUE ])
                /\ Goto(t, "wr_write")
           ELSE /\ flocks' = flocks
                /\ SetFrame(t, [ err |-> newError("dbase-io-writerow-3", ErrSys) ])
                /\ Goto(t, "wr_ret")
        /\ Fault("dbf", outcome)
        /\ UNCHANGED << handleVars, tableVars, memoVars, mutexVars, rowPointer,
                        foreign >>

writeRowError(outcome) ==
    IF outcome = "seek" THEN newError("dbase-io-writerow-5", ErrSys)
    ELSE IF outcome = "write" THEN newError("dbase-io-writerow-6", ErrSys)
    ELSE nil

\* the row area after the row r is written at offset position
WriteRowData(data, position, r) ==
    [o \in DOMAIN data \cup {position} |-> IF o = position THEN r ELSE data[o]]

\* seek to position and write the row
WR_Write(t) ==
    \E outcome \in WriteOutcomes("dbf") :
        /\ pc[t] = "wr_write"
        /\ rowData' = IF outcome = "ok"
                      THEN WriteRowData(rowData, frame[t].position, frame[t].r)
                      ELSE rowData
        /\ dbfSize' = IF outcome = "ok"
                      THEN Max(dbfSize, frame[t].position + Len(frame[t].r))
                      ELSE dbfSize
        /\ SetFrame(t, [ err |-> writeRowError(outcome) ])
        /\ Goto(t, IF frame[t].rowDefer THEN "wr_defer" ELSE "wr_ret")
        /\ Fault("dbf", outcome)
        /\ UNCHANGED << handleVars, header, diskHeader, memoVars, flocks, foreign,
                        mutexVars, rowPointer >>

\* the deferred unlock of writeRow, on the table file
WR_Defer(t) ==
    \E outcome \in UnlockOutcomes("dbf") :
        LET u == UlockResult(outcome) IN
        /\ pc[t] = "wr_defer"
        /\ flocks' = IF outcome = "ok"
                     THEN flocks \ {Flock("dbf", frame[t].position,
                                          header.RowLength)}
                     ELSE flocks
        /\ SetFrame(t, [ ulockErr |-> u,
                         err |-> DeferredError("dbase-io-writerow-4",
                                               frame[t].err, u) ])
        /\ Goto(t, "wr_ret")
        /\ Fault("dbf", outcome)
        /\ UNCHANGED << handleVars, tableVars, memoVars, mutexVars, rowPointer,
                        foreign >>

\* a writeRow that returns without unlocking the table mutex
WR_ReturnLocked(t) ==
    /\ pc[t] = "wr_ret"
    /\ Goto(t, "done")
    /\ UNCHANGED << handleVars, tableVars, memoVars, lockVars, mutexVars,
                    rowPointer, frame >>

\* the deferred row.dbf.dbaseMutex.Unlock(), and the return
WR_Return(t) ==
    /\ pc[t] = "wr_ret"
    /\ dbaseMutex' = NoThread
    /\ Goto(t, "done")
    /\ UNCHANGED << handleVars, tableVars, memoVars, lockVars, memoMutex,
                    rowPointer, frame >>

(***************************************************************************)
(* DBF.writeMemo and DBF.writeMemoHeader                                   *)
(***************************************************************************)
\* the block writeMemo puts together: sign, length, and the payload copied
\* into the rest of a BlockSize-byte buffer
MemoBlock(raw, text, length, BlockSize) ==
    LET head == Copy(Zeros(BlockSize),
                     BigEndian32(IF text THEN 1 ELSE 0)
                     \o BigEndian32(Uint32(length)))
    IN SubSeq(head, 1, 8) \o Copy(Zeros(BlockSize - 8), raw)

\* the 8 bytes writeMemoHeader writes at offset 0
MemoHeaderBytes(mh) ==
    BigEndian32(mh.NextFree) \o <<0, 0>> \o BigEndian16(mh.BlockSize)

\* writeMemo is called with the representation of a value among Values
CallWriteMemoOf(t, Values) ==
    \E v \in Values :
        /\ pc[t] = "idle"
        /\ InUse
        /\ frame' = [frame EXCEPT ![t] =
              With(NoFrame, [ op |-> "writeMemo", caller |-> "top",
                              raw |-> getMRepresentation(v).memo,
                              text |-> getMRepresentation(v).txt,
                              length |-> Len(getMRepresentation(v).memo) ])]
        /\ Goto(t, "wm_lock")
        /\ UNCHANGED << handleVars, tableVars, memoVars, lockVars, mutexVars,
                        rowPointer >>

CallWriteMemo(t) == CallWriteMemoOf(t, GoodMemoValues)

\* dbf.memoMutex.Lock(), the check for the FPT file, blockPosition := NextFree
\* and the call of writeMemoHeader
WM_LockBelow(t, limit) ==
    /\ pc[t] = "wm_lock"
    /\ MutexFree(memoMutex)
    /\ memoHeader.NextFree < limit
    /\ memoMutex' = t
    /\ IF memoFile = "nil"
       THEN /\ SetFrame(t, [ wmRet |-> newError("dbase-io-writememo-1", ErrNoFPT) ])
            /\ Goto(t, "wm_ret")
       ELSE /\ SetFrame(t, [ blockPosition |-> memoHeader.NextFree ])
            /\ Goto(t, IF WriteLock THEN "wmh_flock" ELSE "wmh_write")
    /\ UNCHANGED << handleVars, tableVars, memoVars, lockVars, dbaseMutex,
                    rowPointer >>

\* the same, with memo writes started only while NextFree < MaxNextFree
WM_Lock(t) == WM_LockBelow(t, MaxNextFree)

\* what writeMemo does with the error writeMemoHeader returned
AfterWriteMemoHeader(wmhErr) ==
    IF wmhErr # nil
    THEN [ pc |-> "wm_ret", wmRet |-> newError("dbase-io-writememo-2", wmhErr) ]
    ELSE [ pc |-> IF WriteLock THEN "wm_flock" ELSE "wm_write", wmRet |-> nil ]

BlockOf(t) ==
    MemoBlock(frame[t].raw, frame[t].text, frame[t].length, memoHeader.BlockSize)

\* writeMemoHeader: the lock on [0, header.FirstRow) of the memo file
WMH_Flock(t) ==
    \E outcome \in LockOutcomes("fpt") :
        /\ pc[t] = "wmh_flock"
        /\ IF outcome = "ok"
           THEN /\ flocks' = flocks \cup {Flock("fpt", 0, header.FirstRow)}
                /\ SetFrame(t, [ wmhDefer |-> TRUE ])
                /\ Goto(t, "wmh_write")
           ELSE LET e == newError("dbase-io-writememoheader-2", ErrSys) IN
                /\ flocks' = flocks
                /\ SetFrame(t, [ wmhErr |-> e, wmErr |-> e,
                                 wmRet |-> AfterWriteMemoHeader(e).wmRet ])
                /\ Goto(t, AfterWriteMemoHeader(e).pc)
        /\ Fault("fpt", outcome)
        /\ UNCHANGED << handleVars, tableVars, memoVars, mutexVars, rowPointer,
                        foreign >>

writeMemoHeaderError(outcome) ==
    IF outcome = "seek" THEN newError("dbase-io-writememoheader-4", ErrSys)
    ELSE IF outcome = "write" THEN newError("dbase-io-writememoheader-5", ErrSys)
    ELSE nil

\* a writeMemoHeader that takes NextFree back when its write fails
writeMemoHeaderNextFreeUndone(NextFree, outcome) ==
    IF outcome = "ok" THEN Uint32(NextFree + 1) ELSE NextFree - 1

\* NextFree after the body of writeMemoHeader ran with this outcome
writeMemoHeaderNextFree(NextFree, outcome) ==
    IF outcome = "seek" THEN NextFree ELSE Uint32(NextFree + 1)

\* writeMemoHeader: seek to 0, NextFree++, write the 8 header bytes
WMH_Write(t) ==
    \E outcome \in WriteOutcomes("fpt") :
        LET e == writeMemoHeaderError(outcome)
            mh == [memoHeader EXCEPT !.NextFree =
                      writeMemoHeaderNextFree(memoHeader.NextFree, outcome)]
        IN
        /\ pc[t] = "wmh_write"
        /\ memoHeader' = mh
        /\ fpt' = IF outcome = "ok" THEN WriteAt(fpt, 0, MemoHeaderBytes(mh))
                  ELSE fpt
        /\ IF frame[t].wmhDefer
           THEN /\ SetFrame(t, [ wmhErr |-> e ])
                /\ Goto(t, "wmh_defer")
           ELSE /\ SetFrame(t, [ wmhErr |-> e, wmErr |-> e,
                                 wmRet |-> AfterWriteMemoHeader(e).wmRet,
                                 block |-> IF e = nil THEN BlockOf(t) ELSE <<>> ])
                /\ Goto(t, AfterWriteMemoHeader(e).pc)
        /\ Fault("fpt", outcome)
        /\ UNCHANGED << handleVars, tableVars, flocks, foreign, mutexVars,
                        rowPointer >>

\* the file whose descriptor the deferred unlocks of writeMemoHeader and of
\* writeMemo are called on: dbf.dbaseFile.Fd()
MemoUnlockFile == "dbf"

\* writeMemoHeader: the deferred unlock
WMH_Defer(t) ==
    \E outcome \in UnlockOutcomes(MemoUnlockFile) :
        LET u == UlockResult(outcome)
            e == DeferredError("dbase-io-writememoheader-3", frame[t].wmhErr, u)
        IN
        /\ pc[t] = "wmh_defer"
        /\ flocks' = IF outcome = "ok"
                     THEN flocks \ {Flock(MemoUnlockFile, 0, header.FirstRow)}
                     ELSE flocks
        /\ SetFrame(t, [ ulockErr |-> u, wmhErr |-> e, wmErr |-> e,
                         wmRet |-> AfterWriteMemoHeader(e).wmRet,
                         block |-> IF e = nil THEN BlockOf(t) ELSE <<>> ])
        /\ Goto(t, AfterWriteMemoHeader(e).pc)
        /\ Fault(MemoUnlockFile, outcome)
        /\ UNCHANGED << handleVars, tableVars, memoVars, mutexVars, rowPointer,
                        foreign >>

\* writeMemo: the lock on the memo file, Start blockPosition, Len BlockSize
WM_Flock(t) ==
    \E outcome \in LockOutcomes("fpt") :
        /\ pc[t] = "wm_flock"
        /\ IF outcome = "ok"
           THEN /\ flocks' = flocks \cup
                      {Flock("fpt", frame[t].blockPosition, memoHeader.BlockSize)}
                /\ SetFrame(t, [ wmDefer |-> TRUE, wmErr |-> nil ])
                /\ Goto(t, "wm_write")
           ELSE /\ flocks' = flocks
                /\ SetFrame(t, [ wmErr |-> ErrSys,
                                 wmRet |-> newError("dbase-io-writememo-3", ErrSys) ])
                /\ Goto(t, "wm_ret")
        /\ Fault("fpt", outcome)
        /\ UNCHANGED << handleVars, tableVars, memoVars, mutexVars, rowPointer,
                        foreign >>

writeMemoError(outcome) ==
    IF outcome = "seek" THEN newError("dbase-io-writememo-5", ErrSys)
    ELSE IF outcome = "write" THEN newError("dbase-io-writememo-6", ErrSys)
    ELSE nil

\* a seek to the block number taken as a byte offset
BlockOffsetBytes(blockPosition, BlockSize) == blockPosition

\* the file offset writeMemo seeks to
BlockOffset(blockPosition, BlockSize) == blockPosition * BlockSize

\* writeMemo: seek to blockPosition * BlockSize and write the block; the
\* address is the block number as 4 little-endian bytes
WM_Write(t) ==
    \E outcome \in WriteOutcomes("fpt") :
        /\ pc[t] = "wm_write"
        /\ fpt' = IF outcome = "ok"
                  THEN WriteAt(fpt, BlockOffset(frame[t].blockPosition,
                                               memoHeader.BlockSize),
                               frame[t].block)
                  ELSE fpt
        /\ SetFrame(t, [ wmErr |-> IF outcome = "ok" THEN nil ELSE ErrSys,
                         wmRet |-> writeMemoError(outcome),
                         address |-> IF outcome = "ok"
                                     THEN LittleEndian32(frame[t].blockPosition)
                                     ELSE <<>> ])
        /\ Goto(t, IF frame[t].wmDefer THEN "wm_defer" ELSE "wm_ret")
        /\ Fault("fpt", outcome)
        /\ UNCHANGED << handleVars, tableVars, memoHeader, flocks, foreign,
                        mutexVars, rowPointer >>

\* the error writeMemo returns once its deferred unlock has run: writeMemo
\* has no named result, the closure assigns the local err only
writeMemoResult(ret, ulockErr) == ret

\* writeMemo: the deferred unlock
WM_Defer(t) ==
    \E outcome \in UnlockOutcomes(MemoUnlockFile) :
        LET u == UlockResult(outcome) IN
        /\ pc[t] = "wm_defer"
        /\ flocks' = IF outcome = "ok"
                     THEN flocks \ {Flock(MemoUnlockFile, frame[t].blockPosition,
                                          memoHeader.BlockSize)}
                     ELSE flocks
        /\ SetFrame(t, [ ulockErr |-> u,
                         wmErr |-> DeferredError("dbase-io-writememoheader-4",
                                                 frame[t].wmErr, u),
                         wmRet |-> writeMemoResult(frame[t].wmRet, u) ])
        /\ Goto(t, "wm_ret")
        /\ Fault(MemoUnlockFile, outcome)
        /\ UNCHANGED << handleVars, tableVars, memoVars, mutexVars, rowPointer,
                        foreign >>

\* the deferred dbf.memoMutex.Unlock() and the return, to the caller of the
\* operation or to the encoding of the memo field of a row
WM_Return(t) ==
    /\ pc[t] = "wm_ret"
    /\ memoMutex' = NoThread
    /\ IF frame[t].caller = "top"
       THEN /\ SetFrame(t, [ err |-> frame[t].wmRet ])
            /\ Goto(t, "done")
       ELSE IF frame[t].wmRet # nil
       THEN /\ SetFrame(t, [ err |-> newError("dbase-io-writerow-1",
                     << "dbase-interpreter-valuetobyterepresentation-1",
                        "dbase-interpreter-getmrepresentation-2" >>
                     \o frame[t].wmRet) ])
            /\ Goto(t, "wr_ret")
       ELSE /\ SetFrame(t, [ r |-> frame[t].r \o
                                   Copy(Zeros(Columns[frame[t].fi].Length),
                                        frame[t].address),
                             fi |-> frame[t].fi + 1 ])
            /\ Goto(t, "wr_tobytes")
    /\ UNCHANGED << handleVars, tableVars, memoVars, lockVars, dbaseMutex,
                    rowPointer >>

(***************************************************************************)
(* The specifications                                                      *)
(***************************************************************************)
\* the steps of a thread inside writeRow and the writeHeader it calls
WriteRowStep(t) ==
    \/ WR_Lock(t) \/ WR_Field(t) \/ WR_Position(t)
    \/ WH_Flock(t) \/ WH_Write(t) \/ WH_Defer(t)
    \/ WR_Flock(t) \/ WR_Write(t) \/ WR_Defer(t) \/ WR_Return(t)

\* the steps of a thread inside writeMemo and the writeMemoHeader it calls
WriteMemoStep(t) ==
    \/ WM_Lock(t) \/ WMH_Flock(t) \/ WMH_Write(t) \/ WMH_Defer(t)
    \/ WM_Flock(t) \/ WM_Write(t) \/ WM_Defer(t) \/ WM_Return(t)

\* one caller: the operations that write and read the two files, and the
\* life cycle of the handle
Next ==
    \/ CallWriteRow(1) \/ WriteRowStep(1)
    \/ CallWriteMemo(1) \/ WriteMemoStep(1)
    \/ Close(1) \/ Open(1) \/ ReadRow(1) \/ ReadMemo(1)
    \/ Return(1)

Spec == Init /\ [][Next]_vars

\* one caller moving the cursor over a table that grows, no system call
\* failing
NextNav ==
    \/ GoTo(1) \/ Skip(1)
    \/ CallWriteRow(1) \/ WriteRowStep(1) \/ WriteMemoStep(1)
    \/ ReadRow(1)
    \/ Return(1)

SpecNav == InitNoFaults /\ [][NextNav]_vars

\* one caller, the operations of one handle while it is open
NextOps ==
    \/ CallWriteRowOf(1, 0..(MaxRows + 1), FewRowValues(memoFile # "nil"))
    \/ WriteRowStep(1)
    \/ CallWriteMemo(1) \/ WriteMemoStep(1)
    \/ ReadMemo(1) \/ Search(1) \/ GoTo(1) \/ Skip(1)
    \/ Return(1)

SpecOps == Init /\ [][NextOps]_vars

\* one caller writing rows that encode, in place or at RowsCount, no system
\* call failing
NextRows ==
    \/ CallWriteRowOf(1, 0..header.RowsCount, GoodRowValues(memoFile # "nil"))
    \/ WriteRowStep(1) \/ WriteMemoStep(1)
    \/ ReadRow(1)
    \/ Return(1)

SpecRows == InitNoFaults /\ [][NextRows]_vars

\* two threads writing through the same handle
NextConc ==
    \E t \in Threads :
        \/ CallWriteRowOf(t, {header.RowsCount + 1},
                          FewRowValues(memoFile # "nil"))
        \/ WriteRowStep(t)
        \/ CallWriteMemoOf(t, {BytesValue(ShortPayload)})
        \/ WriteMemoStep(t)
        \/ Return(t)

SpecConc == Init /\ [][NextConc]_vars

\* two threads writing memo blocks through the same handle, one block more
\* than the other specifications allow
NextMemo ==
    \E t \in Threads :
        \/ CallWriteMemoOf(t, {BytesValue(ShortPayload), StringValue(LongPayload)})
        \/ WM_LockBelow(t, MaxNextFree + 1)
        \/ WMH_Flock(t) \/ WMH_Write(t) \/ WMH_Defer(t)
        \/ WM_Flock(t) \/ WM_Write(t) \/ WM_Defer(t) \/ WM_Return(t)
        \/ Return(t)

SpecMemo == Init /\ [][NextMemo]_vars

\* the rows a table file may hold: live or deleted, with one of two texts
FileRows == { <<m, c, 32>> : m \in {Active, Deleted}, c \in {65, 66} }

\* the handle Open returns for a table file that is already there: the header
\* announces up to MaxRows rows, and the file ends anywhere in the row area,
\* at the end of a row or inside one
InitFile ==
    /\ WriteLock = FALSE
    /\ dbaseFile = "open"
    /\ memoFile = "nil"
    /\ \E n \in 0..MaxRows :
          header = [ RowsCount |-> n,
                     FirstRow |-> FirstRowOf(ColumnsOf(FALSE)),
                     RowLength |-> RowLengthOf(ColumnsOf(FALSE)),
                     Day |-> OpenDay ]
    /\ diskHeader = header
    /\ dbfSize \in header.FirstRow..RowOffset(header, MaxRows)
    /\ rowData \in [ { RowOffset(header, i) : i \in { j \in 0..(MaxRows - 1) :
                                      RowOffset(header, j) < dbfSize } }
                     -> FileRows ]
    /\ memoHeader = [ NextFree |-> 1, BlockSize |-> BlockSize0 ]
    /\ fpt = <<>>
    /\ rowPointer = 0
    /\ dbaseMutex = NoThread
    /\ memoMutex = NoThread
    /\ flocks = {}
    /\ foreign = {}
    /\ faults = MaxFaults
    /\ pc = [t \in Threads |-> "idle"]
    /\ frame = [t \in Threads |-> NoFrame]

\* the cursor and the reads of a table file that is already there
NextCursor ==
    \/ GoTo(1)
    \/ Skip(1)
    \/ Search(1)
    \/ DBF_Deleted(1)
    \/ ReadRow(1)
    \/ Return(1)

SpecCursor == InitFile /\ [][NextCursor]_vars

\* one caller writing rows and memos while other processes take and release
\* conflicting locks on the two files; the caller keeps running
NextLock ==
    \/ CallWriteRowOf(1, {header.RowsCount + 1}, FewRowValues(memoFile # "nil"))
    \/ WriteRowStep(1)
    \/ CallWriteMemoOf(1, {BytesValue(ShortPayload)})
    \/ WriteMemoStep(1)
    \/ ForeignLock
    \/ ForeignUnlock
    \/ Return(1)

SpecLock ==
    Init /\ [][NextLock]_vars /\ WF_vars(WriteRowStep(1) \/ WriteMemoStep(1))

\* the value codec applied to fields of a handle
NextCodec ==
    \/ ValueToBytes(1)
    \/ DataToValue(1)
    \/ Return(1)

SpecCodec == InitNoFaults /\ [][NextCodec]_vars

(***************************************************************************)
(* Properties                                                              *)
(***************************************************************************)
Returned(t, op) == pc[t] = "done" /\ frame[t].op = op

\* the innermost error of a chain
Cause(err) == <<err[Len(err)]>>

\* C1: a successful writeRow of a row whose Position equals the RowsCount N
\* it finds leaves RowsCount = N + 1 and has written the row at the offset
\* FirstRow + N * RowLength, the previous end of the data.
C1_AppendAtEndOfData ==
    \A t \in Threads :
        ( /\ Returned(t, "writeRow")
          /\ frame[t].err = nil
          /\ frame[t].Position = frame[t].N )
        => /\ header.RowsCount = frame[t].N + 1
           /\ frame[t].position = RowOffset(header, frame[t].N)
           /\ RowOffset(header, frame[t].N) \in DOMAIN rowData
           /\ rowData[RowOffset(header, frame[t].N)] = frame[t].r

\* C2: for a cursor c in [0, RowsCount] and an offset d, after Skip(d) the
\* cursor is max(0, min(c + d, RowsCount)).
C2_SkipClamps ==
    \A t \in Threads :
        ( /\ Returned(t, "Skip")
          /\ frame[t].before <= frame[t].N )
        => rowPointer = Max(0, Min(frame[t].before + frame[t].arg, frame[t].N))

\* C3: GoTo(n) with n > RowsCount sets the cursor to RowsCount and returns
\* an EOF error; with n <= RowsCount it sets the cursor to n and returns no
\* error; it changes neither RowsCount nor the contents of the files.
C3_GoTo ==
    [][ \A t \in Threads :
          ( pc[t] = "idle" /\ pc'[t] = "done" /\ frame'[t].op = "GoTo" )
          => LET n == frame'[t].arg IN
             /\ n > header.RowsCount =>
                    /\ rowPointer' = header.RowsCount
                    /\ frame'[t].err # nil
                    /\ Cause(frame'[t].err) = ErrEOF
             /\ n <= header.RowsCount =>
                    /\ rowPointer' = n
                    /\ frame'[t].err = nil
             /\ UNCHANGED << header, diskHeader, rowData, dbfSize, fpt >>
      ]_vars

\* C3 witness: GoTo past the end of a table that has rows has returned.
C3_Witness ==
    \E t \in Threads :
        /\ Returned(t, "GoTo")
        /\ frame[t].arg > header.RowsCount
        /\ header.RowsCount > 0
        /\ rowPointer = header.RowsCount

\* C4: with the memo file open, readMemo of the reference a successful
\* writeMemo(p, t, |p|) returned yields p and t without error, for a payload p
\* of any length, and NextFree is one more than before the write.
C4_MemoRoundTrip ==
    \A t \in Threads :
        ( /\ Returned(t, "writeMemo")
          /\ frame[t].err = nil
          /\ memoFile = "open" )
        => LET res == readMemo(memoFile, memoHeader, fpt, frame[t].address) IN
           /\ res.err = nil
           /\ res.out = frame[t].raw
           /\ res.flag = frame[t].text
           /\ memoHeader.NextFree = frame[t].blockPosition + 1

\* C5: after a successful writeRow the RowsCount of the header on disk is the
\* RowsCount in memory; so after an append (Position = RowsCount) the header
\* parsed on reopening has the previous RowsCount plus 1 and readRow of
\* RowsCount - 1 returns the bytes of the appended row.
C5_AppendThenReopen ==
    \A t \in Threads :
        ( Returned(t, "writeRow") /\ frame[t].err = nil )
        => /\ diskHeader.RowsCount = header.RowsCount
           /\ frame[t].Position = frame[t].N =>
                /\ diskHeader.RowsCount = frame[t].N + 1
                /\ readRow(diskHeader, "open", rowData, dbfSize,
                           diskHeader.RowsCount - 1)
                     = [ out |-> frame[t].r, err |-> nil ]

\* C6: after any sequence of successful writeRow calls, appends at
\* Position = RowsCount and overwrites in place, the written row area ends at
\* FirstRow + RowsCount * RowLength and every slot n < RowsCount is written:
\* readRow(n) is complete.
C6_RowAreaMatchesRowsCount ==
    pc[1] = "idle" =>
        /\ dbfSize = RowOffset(header, header.RowsCount)
        /\ \A n \in 0..(header.RowsCount - 1) :
              /\ RowOffset(header, n) \in DOMAIN rowData
              /\ readRow(header, dbaseFile, rowData, dbfSize, n).err = nil

InWriteRow(t) ==
    frame[t].op = "writeRow" /\ pc[t] \notin {"idle", "wr_lock", "done"}

\* the thread is inside writeMemo, between Lock() and the deferred Unlock()
InWriteMemo(t) ==
    pc[t] \in { "wmh_flock", "wmh_write", "wmh_defer", "wm_flock", "wm_write",
                "wm_defer", "wm_ret" }

C9_CloseClosesBoth ==
    \A t \in Threads :
        ( Returned(t, "Close") /\ frame[t].out = << "open", "open" >> )
        => /\ dbaseFile = "closed"
           /\ memoFile = "closed"

\* the error a locking operation must return: E the error of its body, U the
\* error of the release of its lock, R the error returned
ReleaseRule(E, U, R) ==
    /\ (E # nil /\ U # nil) => R = E
    /\ (E = nil /\ U # nil) => (R # nil /\ Cause(R) = U)
    /\ (E = nil /\ U = nil) => R = nil

\* C10: with WriteLock enabled, writeHeader, writeMemoHeader, writeRow and
\* writeMemo return the error of the body when body and lock release both
\* fail, the error of the release when only the release fails, and no error
\* when both succeed.
C10_ReleaseErrorRule ==
    [][ \A t \in Threads :
          /\ ( pc[t] = "wh_defer" /\ pc'[t] # "wh_defer" ) =>
                ReleaseRule(frame[t].whErr, frame'[t].ulockErr, frame'[t].whErr)
          /\ ( pc[t] = "wmh_defer" /\ pc'[t] # "wmh_defer" ) =>
                ReleaseRule(frame[t].wmhErr, frame'[t].ulockErr, frame'[t].wmhErr)
          /\ ( pc[t] = "wr_defer" /\ pc'[t] # "wr_defer" ) =>
                ReleaseRule(frame[t].err, frame'[t].ulockErr, frame'[t].err)
          /\ ( pc[t] = "wm_defer" /\ pc'[t] # "wm_defer" ) =>
                ReleaseRule(frame[t].wmRet, frame'[t].ulockErr, frame'[t].wmRet)
      ]_vars

(***************************************************************************)
(* C11: Deleted() with the cursor at or past RowsCount returns an EOF      *)
(* error and reads nothing.  Otherwise it reads the one byte at            *)
(* FirstRow + cursor * RowLength and returns true exactly when that byte   *)
(* is 0x2A.  Either way the cursor, RowsCount and the file are as before.  *)
(***************************************************************************)
C11_Deleted ==
    [][ DBF_Deleted(1) =>
          LET f == frame'[1]
              off == header.FirstRow + rowPointer * header.RowLength
          IN /\ rowPointer >= header.RowsCount =>
                   /\ f.err # nil /\ Cause(f.err) = ErrEOF
                   /\ f.length = 0
                   /\ f.flag = FALSE
             /\ rowPointer < header.RowsCount =>
                   /\ f.position = off
                   /\ off < dbfSize =>
                         /\ f.err = nil
                         /\ f.length = 1
                         /\ f.flag = (SlotAt(rowData, 1, off)[1] = 42)
             /\ UNCHANGED << rowPointer, header, diskHeader, rowData, dbfSize,
                             fpt >> ]_vars

\* Deleted() has returned true for the second row of a table whose first row
\* is live
C11_Witness ==
    /\ Returned(1, "Deleted")
    /\ frame[1].err = nil /\ frame[1].flag
    /\ frame[1].before = 1
    /\ SlotAt(rowData, 1, RowOffset(header, 0))[1] = Active

\* the number of bytes the table file holds of the row slot n
SlotBytesInFile(n) ==
    Max(0, Min(header.RowLength,
               dbfSize - (header.FirstRow + n * header.RowLength)))

(***************************************************************************)
(* C12, as stated: readRow(n) with n >= RowsCount fails with an EOF error  *)
(* and reads nothing; with n < RowsCount it returns Incomplete whenever    *)
(* fewer than RowLength bytes were read.                                   *)
(***************************************************************************)
C12_ReadRowAsStated ==
    [][ ReadRow(1) =>
          LET f == frame'[1]
              n == f.arg
          IN /\ n >= header.RowsCount =>
                   /\ f.err # nil /\ Cause(f.err) = ErrEOF
                   /\ f.out = <<>>
             /\ (n < header.RowsCount /\ SlotBytesInFile(n) < header.RowLength)
                   => (f.err # nil /\ Cause(f.err) = ErrIncomplete) ]_vars

(***************************************************************************)
(* C12, amended: readRow(n) with n >= RowsCount fails with an EOF error    *)
(* and reads nothing.  With n < RowsCount it reads RowLength bytes at      *)
(* FirstRow + n * RowLength: it returns them when the file holds them all, *)
(* Incomplete when the file holds at least one but not all of them, and    *)
(* the end-of-file error of the read when the file holds none of them.     *)
(***************************************************************************)
C12_ReadRow ==
    [][ ReadRow(1) =>
          LET f == frame'[1]
              n == f.arg
              off == header.FirstRow + n * header.RowLength
              k == SlotBytesInFile(n)
          IN /\ n >= header.RowsCount =>
                   /\ f.err # nil /\ Cause(f.err) = ErrEOF
                   /\ f.out = <<>>
             /\ n < header.RowsCount =>
                   /\ Len(f.out) = header.RowLength
                   /\ SubSeq(f.out, 1, k)
                         = SubSeq(SlotAt(rowData, header.RowLength, off), 1, k)
                   /\ k = header.RowLength => f.err = nil
                   /\ (0 < k /\ k < header.RowLength) =>
                         (f.err # nil /\ Cause(f.err) = ErrIncomplete)
                   /\ k = 0 => (f.err # nil /\ Cause(f.err) = <<"io.EOF">>)
             /\ UNCHANGED << rowPointer, header, diskHeader, rowData, dbfSize,
                             fpt >> ]_vars

\* readRow has returned Incomplete for the second row, of which the file
\* holds the deletion marker alone
C12_Witness ==
    /\ Returned(1, "readRow")
    /\ frame[1].arg = 1
    /\ frame[1].err # nil /\ Cause(frame[1].err) = ErrIncomplete
    /\ SlotBytesInFile(1) = 1
    /\ frame[1].out[1] = Deleted

\* no read of Search fails: every row below RowsCount is in the file whole
\* and Row() decodes it
NoReadErrors ==
    \A i \in 0..(header.RowsCount - 1) :
        /\ SlotBytesInFile(i) = header.RowLength
        /\ RowDecodes(header, dbaseFile, rowData, dbfSize, Columns,
                      memoFile, memoHeader, fpt, i)

C14_SearchMemoRejected ==
    [][ (Search(1) /\ Columns[frame'[1].arg].DataType = "M") =>
          /\ frame'[1].err # nil
          /\ Cause(frame'[1].err) = ErrSearchMemo
          /\ frame'[1].out = <<>>
          /\ UNCHANGED << rowPointer, header, memoHeader >> ]_vars

\* Search on the memo column of a table with a row has returned the error,
\* with the cursor on that row
C14_Witness ==
    /\ Returned(1, "Search")
    /\ Columns[frame[1].arg].DataType = "M"
    /\ frame[1].err # nil
    /\ header.RowsCount >= 1
    /\ rowPointer = 1
    /\ RowOffset(header, 0) \in DOMAIN rowData

\* the decoded float64 v is below zero
FloatNegative(v) == Len(v.data) = 2 /\ (v.data[1] < 0 \/ v.data[2] < 0)

(***************************************************************************)
(* C15: on a Y column of length 8 the eight bytes of a signed 64-bit       *)
(* integer k, negative k included, decode to k / 10000 with the sign of k, *)
(* and a currency value that is encoded and decoded again is the value     *)
(* itself.                                                                 *)
(***************************************************************************)
C15_CurrencyRoundTrip ==
    [][ LET f == frame'[1]
            column == CodecColumns[f.arg]
        IN /\ (ValueToBytes(1) /\ column.DataType = "Y"
                               /\ f.cval.kind = "float64") =>
                 /\ f.err = nil
                 /\ f.raw = LittleEndian64(CurrencyUnits(f.cval.data))
                 /\ dataToValue(f.raw, column).err = nil
                 /\ dataToValue(f.raw, column).val = f.cval
           /\ (DataToValue(1) /\ column.DataType = "Y" /\ Len(f.raw) = 8) =>
                 /\ f.err = nil
                 /\ FloatNegative(f.cval) <=> f.raw[8] >= 128 ]_vars

(***************************************************************************)
(* C16: for every column type and field value valueToByteRepresentation    *)
(* returns an error or a slice of exactly column.Length bytes, and         *)
(* dataToValue returns an error whenever the raw slice is not              *)
(* column.Length bytes long.                                               *)
(***************************************************************************)
C16_FieldLength ==
    [][ LET f == frame'[1]
            column == CodecColumns[f.arg]
        IN /\ ValueToBytes(1) => (f.err # nil \/ Len(f.raw) = column.Length)
           /\ DataToValue(1) => (Len(f.raw) # column.Length => f.err # nil)
      ]_vars

(***************************************************************************)
(* C17: on an I column an int32 v is stored as its four-byte little-endian *)
(* two's complement and decodes back to v, for every v from -2^31 to       *)
(* 2^31 - 1; a float64 f is stored as trunc(f) when 0 < f <= 2^31 - 1 and  *)
(* as 0 for every other f, without an error.                               *)
(***************************************************************************)
C17_IntegerColumn ==
    [][ (ValueToBytes(1) /\ CodecColumns[frame'[1].arg].DataType = "I") =>
          LET f == frame'[1]
              column == CodecColumns[f.arg]
              d == f.cval.data
              stored == dataToValue(f.raw, column)
          IN /\ f.cval.kind = "int32" =>
                   /\ f.err = nil
                   /\ Len(f.raw) = 4
                   /\ d[1] >= 0 =>
                         /\ f.raw[4] < 128
                         /\ f.raw[1] + 256 * f.raw[2] + 65536 * f.raw[3]
                              + 16777216 * f.raw[4] = d[1]
                   /\ d[1] < 0 =>
                         /\ f.raw[4] >= 128
                         /\ (255 - f.raw[1]) + 256 * (255 - f.raw[2])
                              + 65536 * (255 - f.raw[3])
                              + 16777216 * (255 - f.raw[4]) = -(d[1] + 1)
                   /\ stored.err = nil
                   /\ stored.val = f.cval
             /\ f.cval.kind = "float64" =>
                   /\ f.err = nil
                   /\ stored.err = nil
                   /\ stored.val =
                         IntValue(IF FloatPositive(d) /\ FloatAtMost(d, MaxInt32)
                                  THEN FloatTrunc(d) ELSE 0) ]_vars

\* the lowest int32 has been encoded on the I column
C17_Witness ==
    /\ Returned(1, "valueToByteRepresentation")
    /\ CodecColumns[frame[1].arg].DataType = "I"
    /\ frame[1].cval = IntValue(MinInt32)
    /\ frame[1].raw = <<0, 0, 0, 128>>

(***************************************************************************)
(* C18: whatever sequence of GoTo, Skip, Search and writeRow is run on an  *)
(* open handle, the cursor stays within 0 <= rowPointer <= RowsCount.      *)
(***************************************************************************)
C18_CursorInRange == rowPointer >= 0 /\ rowPointer <= header.RowsCount

(***************************************************************************)
(* C19: a successful writeRow of a row with Position = n < RowsCount       *)
(* leaves RowsCount, FirstRow, RowLength and the cursor as they were,      *)
(* rewrites the header with at most the modification date changed, changes *)
(* no row slot other than n, and readRow(n) then returns the bytes         *)
(* written.                                                                *)
(***************************************************************************)
C19_OverwriteInPlace ==
    (Returned(1, "writeRow") /\ frame[1].err = nil
                            /\ frame[1].Position < frame[1].N) =>
        LET f == frame[1]
            n == f.Position
            slot == header.FirstRow + n * header.RowLength
        IN /\ header.RowsCount = f.N
           /\ header.FirstRow = FirstRowOf(Columns)
           /\ header.RowLength = RowLengthOf(Columns)
           /\ rowPointer = f.before
           /\ diskHeader = [ RowsCount |-> f.N,
                              FirstRow |-> FirstRowOf(Columns),
                              RowLength |-> RowLengthOf(Columns),
                              Day |-> Today ]
           /\ DOMAIN rowData = DOMAIN f.data0 \cup {slot}
           /\ \A o \in DOMAIN f.data0 : o # slot => rowData[o] = f.data0[o]
           /\ Len(f.r) = header.RowLength
           /\ readRow(header, dbaseFile, rowData, dbfSize, n)
                 = [ out |-> f.r, err |-> nil ]

\* the second row of a table has been overwritten with another text while
\* the first row kept its own
C19_Witness ==
    /\ Returned(1, "writeRow") /\ frame[1].err = nil
    /\ frame[1].N = 2 /\ frame[1].Position = 1
    /\ RowOffset(header, 1) \in DOMAIN frame[1].data0
    /\ frame[1].data0[RowOffset(header, 1)] # frame[1].r
    /\ RowOffset(header, 0) \in DOMAIN rowData

\* the lock on the header region of the table file
HeaderLock == Flock("dbf", 0, header.FirstRow)

(***************************************************************************)
(* C20: in every execution of writeRow the header, with RowsCount already  *)
(* incremented on an append, is written before the row is; when the header *)
(* write fails, or the row lock is refused with an error other than        *)
(* EAGAIN, no byte of the row is written; and the lock on the header       *)
(* region is released before the lock on the row region is requested, so   *)
(* the two are never held together.                                        *)
(***************************************************************************)
C20_HeaderBeforeRow ==
    [][ LET f == frame[1]
            g == frame'[1]
        IN \* the row is written after a header write that succeeded
           /\ (rowData' # rowData \/ dbfSize' # dbfSize) =>
                 /\ pc[1] = "wr_write"
                 /\ f.whErr = nil
                 /\ diskHeader = header
                 /\ diskHeader.Day = Today
                 /\ diskHeader.RowsCount =
                       IF f.Position >= f.N THEN f.N + 1 ELSE f.N
           \* the header is written before this execution has written a row
           /\ diskHeader' # diskHeader =>
                 /\ pc[1] = "wh_write"
                 /\ rowData = f.data0
           \* no row bytes after a failed header write or a refused row lock
           /\ (pc'[1] \in {"wr_ret", "done"} /\ g.op = "writeRow" /\ g.err # nil
                 /\ g.err[1] \in {"dbase-io-writerow-2", "dbase-io-writerow-3"})
                 => rowData' = g.data0
           \* the header lock is gone when the row lock is requested and
           \* while it is held
           /\ (pc'[1] = "wr_flock"
                 \/ (pc'[1] \in {"wr_write", "wr_defer"} /\ g.rowDefer))
                 => HeaderLock' \notin flocks' ]_vars

\* with WriteLock on, an append has written the header with the new
\* RowsCount and then the row, and has released both locks
C20_Witness ==
    /\ WriteLock
    /\ Returned(1, "writeRow") /\ frame[1].err = nil
    /\ frame[1].Position >= frame[1].N
    /\ diskHeader.RowsCount = frame[1].N + 1
    /\ rowData # frame[1].data0
    /\ flocks = {}

(***************************************************************************)
(* C21: with WriteLock on, once writeRow or writeMemo (and the writeHeader *)
(* and writeMemoHeader they call) has returned, every byte-range lock the  *)
(* operation took has been released on the file it was taken on; after     *)
(* writeMemo no lock is left on the memo file.  Stated for the runs in     *)
(* which no system call has failed.                                        *)
(***************************************************************************)
C21_LocksReleased ==
    (WriteLock /\ faults = 0 /\ pc[1] = "done"
               /\ frame[1].op \in {"writeRow", "writeMemo"})
        => flocks = {}

\* the steps at which a lock is requested, the file each is requested on,
\* and the step that follows the acquisition
LockSteps == {"wh_flock", "wr_flock", "wmh_flock", "wm_flock"}
LockFile(p) == IF p \in {"wh_flock", "wr_flock"} THEN "dbf" ELSE "fpt"

(***************************************************************************)
(* C22: with WriteLock on, an acquisition that meets a conflicting lock is *)
(* tried again for as long as the conflict lasts, and nothing is written   *)
(* to a file before the lock for it was acquired; any other error of the   *)
(* acquisition ends the operation without the write; and if the            *)
(* conflicting locks are all released in the end, the waiting operation    *)
(* acquires its lock and completes.                                        *)
(***************************************************************************)
C22_LockRetry ==
    /\ [][ WriteLock =>
             /\ \* a file is written at its write step, under the lock
                /\ diskHeader' # diskHeader =>
                      (pc[1] = "wh_write" /\ frame[1].whDefer)
                /\ (rowData' # rowData \/ dbfSize' # dbfSize) =>
                      (pc[1] = "wr_write" /\ frame[1].rowDefer)
                /\ fpt' # fpt =>
                      \/ pc[1] = "wmh_write" /\ frame[1].wmhDefer
                      \/ pc[1] = "wm_write" /\ frame[1].wmDefer
             /\ \* no lock is acquired while the conflict lasts
                \A l \in flocks' \ flocks : l.file \notin foreign
             /\ \* the request waits, or ends the operation on another error
                (pc[1] \in LockSteps /\ pc'[1] # pc[1]) =>
                   \/ /\ LockFile(pc[1]) \notin foreign
                      /\ faults' = faults
                      /\ pc'[1] \in {"wh_write", "wr_write", "wmh_write",
                                     "wm_write"}
                   \/ /\ faults' = faults + 1
                      /\ pc'[1] \in {"wr_ret", "wm_ret"}
                      /\ UNCHANGED << flocks, diskHeader, rowData, dbfSize,
                                      fpt >> ]_vars
    /\ (<>[](foreign = {})) =>
          /\ (pc[1] = "wh_flock" /\ faults = MaxFaults)
                ~> (pc[1] = "wh_write" /\ frame[1].whDefer)
          /\ (pc[1] = "wr_flock" /\ faults = MaxFaults)
                ~> (pc[1] = "wr_write" /\ frame[1].rowDefer)
          /\ (pc[1] = "wmh_flock" /\ faults = MaxFaults)
                ~> (pc[1] = "wmh_write" /\ frame[1].wmhDefer)
          /\ (pc[1] = "wm_flock" /\ faults = MaxFaults)
                ~> (pc[1] = "wm_write" /\ frame[1].wmDefer)
          /\ (pc[1] \in LockSteps) ~> (pc[1] = "done")

\* the caller waits for the lock on the table header while another process
\* holds a conflicting lock, and no other error can come
C22_Witness ==
    /\ WriteLock
    /\ pc[1] = "wh_flock"
    /\ "dbf" \in foreign
    /\ faults = MaxFaults

\* the lock l lies on the file and covers its bytes [start, start + len)
Covers(l, file, start, len) ==
    l.file = file /\ l.start <= start /\ start + len <= l.start + l.len

(***************************************************************************)
(* C23: with WriteLock on, the byte range each write step locks covers the *)
(* bytes the step writes: the 32 header bytes of writeHeader, the 8 bytes  *)
(* of writeMemoHeader, the RowLength bytes of writeRow at the row offset,  *)
(* and the BlockSize bytes writeMemo writes at blockPosition * BlockSize.  *)
(***************************************************************************)
C23_LockCoversWrite ==
    [][ \A l \in flocks' \ flocks :
          /\ pc[1] = "wh_flock" => Covers(l, "dbf", 0, 32)
          /\ pc[1] = "wmh_flock" => Covers(l, "fpt", 0, 8)
          /\ pc[1] = "wr_flock" =>
                Covers(l, "dbf", frame[1].position, header.RowLength)
          /\ pc[1] = "wm_flock" =>
                Covers(l, "fpt", BlockOffset(frame[1].blockPosition,
                                             memoHeader.BlockSize),
                       memoHeader.BlockSize) ]_vars

\* thread t is blocked in Lock() on a mutex that thread u holds
WaitsFor(t, u) ==
    \/ pc[t] = "wr_lock" /\ dbaseMutex = u
    \/ pc[t] = "wm_lock" /\ memoMutex = u

\* the model stops a thread at Lock() once the table or the memo file has
\* reached the size the model is bounded to
AtBound ==
    \/ header.RowsCount >= MaxRows
    \/ memoHeader.NextFree >= MaxNextFree

(***************************************************************************)
(* C24: threads calling writeRow (memo fields included) and writeMemo on   *)
(* one handle never deadlock.  The table mutex is never requested by a     *)
(* thread that holds a mutex; the memo mutex is requested by a thread that *)
(* holds nothing or the table mutex only; a mutex is held only by a thread *)
(* inside the operation that unlocks it; no thread waits for itself and no *)
(* two threads wait for each other; and while a thread is inside an        *)
(* operation some thread can take a step.                                  *)
(***************************************************************************)
C24_NoDeadlock ==
    /\ \A t \in Threads :
          /\ pc[t] = "wr_lock" => dbaseMutex # t /\ memoMutex # t
          /\ pc[t] = "wm_lock" => memoMutex # t
          /\ dbaseMutex = t => InWriteRow(t)
          /\ memoMutex = t => InWriteMemo(t)
          /\ ~WaitsFor(t, t)
    /\ \A t, u \in Threads : ~(WaitsFor(t, u) /\ WaitsFor(u, t))
    /\ ((\E t \in Threads : pc[t] \notin {"idle", "done"}) /\ ~AtBound)
          => ENABLED (\E t \in Threads : WriteRowStep(t) \/ WriteMemoStep(t))

\* C24 witness: a thread encoding the memo field of a row holds the table
\* mutex and waits for the memo mutex, which the other thread holds inside
\* writeMemo.
C24_Witness ==
    \E t, u \in Threads :
        /\ t # u
        /\ pc[t] = "wm_lock"
        /\ dbaseMutex = t
        /\ memoMutex = u
        /\ frame[u].op = "writeMemo"

\* thread t has returned from a writeRow that appended a row and returned nil
Appended(t) ==
    /\ Returned(t, "writeRow")
    /\ frame[t].err = nil
    /\ frame[t].Position >= frame[t].N

(***************************************************************************)
(* C25: when two threads each append a row carrying the same Position,     *)
(* prepared while RowsCount = N, and both writeRow calls have returned nil, *)
(* RowsCount is N + 2 and the two rows lie in two distinct slots of the    *)
(* row area, each holding the bytes of its row: neither row is overwritten *)
(* by the other.                                                           *)
(***************************************************************************)
C25_ConcurrentAppend ==
    \A t, u \in Threads :
        ( /\ t # u
          /\ Appended(t) /\ Appended(u)
          /\ frame[t].Position = frame[u].Position
          /\ frame[u].N = frame[t].N + 1 )
        => /\ header.RowsCount = frame[t].N + 2
           /\ frame[t].position # frame[u].position
           /\ readRow(header, dbaseFile, rowData, dbfSize, frame[t].N).out
                 = frame[t].r
           /\ readRow(header, dbaseFile, rowData, dbfSize, frame[u].N).out
                 = frame[u].r

\* thread t holds the block reference a writeMemo returned with no error
Wrote(t) == Returned(t, "writeMemo") /\ frame[t].err = nil

(***************************************************************************)
(* C26: successful writeMemo calls on one handle never share a block.      *)
(* Two calls that returned hold different block references; a call writes  *)
(* exactly BlockSize bytes, its block, at blockPosition * BlockSize, past  *)
(* everything the file held, and leaves every other byte as it was; the    *)
(* header write of a call touches the first 8 bytes only.  So the bytes of *)
(* a block written earlier are never modified by a later writeMemo.        *)
(***************************************************************************)
C26_BlocksDistinct ==
    [][ /\ \A t, u \in Threads :
              (t # u /\ Wrote(t)' /\ Wrote(u)')
                  => frame'[t].address # frame'[u].address
        /\ \A t \in Threads :
              ( pc[t] = "wm_write" /\ pc'[t] # "wm_write"
                /\ frame'[t].wmRet = nil )
                  => LET off == frame[t].blockPosition * memoHeader.BlockSize
                     IN /\ frame'[t].address
                             = LittleEndian32(frame[t].blockPosition)
                        /\ off >= Len(fpt)
                        /\ off >= memoHeader.BlockSize
                        /\ Len(fpt') = off + memoHeader.BlockSize
                        /\ SubSeq(fpt', 1, Len(fpt)) = fpt
                        /\ SubSeq(fpt', off + 1, Len(fpt')) = frame[t].block
        /\ (\A t \in Threads : pc[t] # "wm_write") =>
              /\ Len(fpt') = Len(fpt)
              /\ SubSeq(fpt', 9, Len(fpt')) = SubSeq(fpt, 9, Len(fpt))
      ]_vars

\* C26 witness: both threads hold the reference of a block they wrote, and
\* the file holds the two blocks.
C26_Witness ==
    /\ \A t \in Threads : Wrote(t)
    /\ Len(fpt) = 3 * memoHeader.BlockSize

(***************************************************************************)
(* C27: when a writeRow that appends (Position >= RowsCount at the call)   *)
(* returns an error, whichever step failed, the RowsCount of the handle is *)
(* the RowsCount the call found, and every row below RowsCount lies inside *)
(* the file.                                                               *)
(***************************************************************************)
C27_RowsCountOnError ==
    ( /\ Returned(1, "writeRow")
      /\ frame[1].err # nil
      /\ frame[1].Position >= frame[1].N )
    => /\ header.RowsCount = frame[1].N
       /\ \A n \in 0..(header.RowsCount - 1) :
              RowOffset(header, n) + header.RowLength <= dbfSize

\* thread t has returned from a writeRow that failed on a field value whose
\* type does not fit its column
EncodingFailed(t) ==
    /\ Returned(t, "writeRow")
    /\ frame[t].err # nil
    /\ frame[t].err[1] = "dbase-io-writerow-1"
    /\ frame[t].err[Len(frame[t].err)] \in
          { "dbase-interpreter-getcrepresentation-1",
            "dbase-interpreter-getmrepresentation-1" }

(***************************************************************************)
(* C28: a writeRow that fails while encoding the row has written nothing:  *)
(* RowsCount and the row area are as the call found them and, also when a  *)
(* memo field was encoded before the field that failed, NextFree is what   *)
(* it was and the memo file holds no block at that position.               *)
(***************************************************************************)
C28_EncodingFailureWritesNothing ==
    EncodingFailed(1)
    => /\ header.RowsCount = frame[1].N
       /\ rowData = frame[1].data0
       /\ frame[1].caller = "writeRow" =>
             /\ memoHeader.NextFree = frame[1].blockPosition
             /\ Len(fpt) <= BlockOffset(frame[1].blockPosition,
                                        memoHeader.BlockSize)

====
